---- MODULE Spec2Model ----
(***************************************************************************)
(* Trade aggregation and performance metrics of the AI Trading Analyst     *)
(* backend (src/main.py): compute_metrics, and the two handlers that call  *)
(* it, portfolio_summary and ai_insights.                                  *)
(*                                                                         *)
(* Numbers.  A Python float is modelled as a binary floating-point number  *)
(* with a significand of SigBits bits, rounded to nearest, ties to even    *)
(* (IEEE 754 with 53 replaced by SigBits).  The inputs are whole numbers,  *)
(* so every sum, difference and product is a whole number too and is       *)
(* rounded by Float.  Quotients and the square root are kept exact (a      *)
(* ratio of integers, and the root of one) until the code rounds them to   *)
(* decimal places with round(x, ndigits); a rounded result is the integer  *)
(* count of 10^-ndigits units.                                             *)
(*                                                                         *)
(* Strings that the code compares or sorts (the ISO date keys) are         *)
(* sequences of code points.                                               *)
(***************************************************************************)
EXTENDS Integers, Sequences, FiniteSets

\* Longest list of trade documents of the daily-series specification.
MaxTrades == 3
\* Longest list of trade documents of the forecast-window specification.
MaxWindow == 4
\* Longest list of trade documents of the record-shape specification.
MaxDocs == 2
\* Bits of the float significand.
SigBits == 4

VARIABLES trades, response, insightStore

vars == <<trades, response, insightStore>>

----------------------------------------------------------------------------
(* Integer helpers *)

Abs(x) == IF x < 0 THEN -x ELSE x

RECURSIVE Pow(_, _)
Pow(b, e) == IF e = 0 THEN 1 ELSE b * Pow(b, e - 1)

RECURSIVE Gcd(_, _)
Gcd(a, b) == IF b = 0 THEN a ELSE Gcd(b, a % b)

\* n / d rounded to the nearest integer, ties to the even one (d > 0).
RoundDiv(n, d) ==
    LET a  == Abs(n)
        k  == a \div d
        r  == a % d
        up == (2 * r > d) \/ (2 * r = d /\ k % 2 = 1)
        m  == IF up THEN k + 1 ELSE k
    IN  IF n < 0 THEN -m ELSE m

----------------------------------------------------------------------------
(* Floats *)

\* The gap between neighbouring floats at magnitude m.
RECURSIVE Ulp(_)
Ulp(m) == IF m < Pow(2, SigBits) THEN 1 ELSE 2 * Ulp(m \div 2)

\* The float nearest to the whole number x.
Float(x) == RoundDiv(x, Ulp(Abs(x))) * Ulp(Abs(x))

FAdd(a, b) == Float(a + b)
FSub(a, b) == Float(a - b)
FMul(a, b) == Float(a * b)

\* sum(seq): from 0, left to right.
RECURSIVE FSum(_)
FSum(s) == IF s = <<>> THEN 0 ELSE FAdd(FSum(SubSeq(s, 1, Len(s) - 1)), s[Len(s)])

----------------------------------------------------------------------------
(* Exact quotients *)

Rat(n, d) ==
    LET g == Gcd(Abs(n), Abs(d))
    IN  IF d < 0 THEN [num |-> (-n) \div g, den |-> (-d) \div g]
                 ELSE [num |-> n \div g, den |-> d \div g]

RAdd(p, q) == Rat(p.num * q.den + q.num * p.den, p.den * q.den)
RSub(p, q) == Rat(p.num * q.den - q.num * p.den, p.den * q.den)
RMul(p, q) == Rat(p.num * q.num, p.den * q.den)
RDiv(p, q) == Rat(p.num * q.den, p.den * q.num)

\* round(q, ndigits), in units of 10^-ndigits.
Round(q, ndigits) == RoundDiv(q.num * Pow(10, ndigits), q.den)

\* floor(sqrt(n)) for a natural number n.
ISqrt(n) == CHOOSE p \in 0..n : p * p <= n /\ (p + 1) * (p + 1) > n

\* One step of the schoolbook square root: st.p is the root so far, st.c the
\* remainder, st.r the remainder of the long division num / den that yields
\* the next two decimal places of the radicand.
SqrtStep(st, den) ==
    LET pair == (st.r * 100) \div den
        c    == st.c * 100 + pair
        d    == CHOOSE x \in 0..9 :
                    /\ (20 * st.p + x) * x <= c
                    /\ (x = 9 \/ (20 * st.p + x + 1) * (x + 1) > c)
    IN  [p |-> 10 * st.p + d, c |-> c - (20 * st.p + d) * d,
         r |-> (st.r * 100) % den]

RECURSIVE SqrtDigits(_, _)
\* floor(sqrt(q) * 10^k), as a SqrtStep state.
SqrtDigits(q, k) ==
    IF k = 0
    THEN LET p == ISqrt(q.num \div q.den)
         IN  [p |-> p, c |-> (q.num \div q.den) - p * p, r |-> q.num % q.den]
    ELSE SqrtStep(SqrtDigits(q, k - 1), q.den)

\* round(q ** 0.5, ndigits), in units of 10^-ndigits (q >= 0).
RoundRoot(q, ndigits) == (SqrtDigits(q, ndigits + 1).p + 5) \div 10

----------------------------------------------------------------------------
(* Strings and dates *)

\* The decimal digits of n, zero-padded to width w, as code points.
RECURSIVE Pad(_, _)
Pad(n, w) == IF w = 0 THEN <<>> ELSE Append(Pad(n \div 10, w - 1), 48 + (n % 10))

\* date.isoformat(): YYYY-MM-DD.
IsoFormat(date) ==
    Pad(date[1], 4) \o <<45>> \o Pad(date[2], 2) \o <<45>> \o Pad(date[3], 2)

\* a < b for Python strings.
RECURSIVE StrLess(_, _)
StrLess(a, b) ==
    IF b = <<>> THEN FALSE
    ELSE IF a = <<>> THEN TRUE
    ELSE IF a[1] # b[1] THEN a[1] < b[1]
    ELSE StrLess(Tail(a), Tail(b))

DaysIn(year, month) ==
    IF month = 2 THEN (IF year % 4 = 0 /\ (year % 100 # 0 \/ year % 400 = 0) THEN 29 ELSE 28)
    ELSE IF month \in {4, 6, 9, 11} THEN 30 ELSE 31

NextDay(d) ==
    IF d[3] < DaysIn(d[1], d[2]) THEN <<d[1], d[2], d[3] + 1>>
    ELSE IF d[2] < 12 THEN <<d[1], d[2] + 1, 1>> ELSE <<d[1] + 1, 1, 1>>

PrevDay(d) ==
    IF d[3] > 1 THEN <<d[1], d[2], d[3] - 1>>
    ELSE IF d[2] > 1 THEN <<d[1], d[2] - 1, DaysIn(d[1], d[2] - 1)>>
    ELSE <<d[1] - 1, 12, 31>>

\* The UTC calendar date of the instant a timestamp with date, hour and
\* offset denotes.
UtcDate(ts) ==
    IF ts.tz # "offset" THEN ts.date
    ELSE IF ts.hour - ts.off >= 24 THEN NextDay(ts.date)
    ELSE IF ts.hour - ts.off < 0 THEN PrevDay(ts.date)
    ELSE ts.date

\* Mutant of Sorted: sorted(keys, reverse=True).
RECURSIVE SortedDescending(_)
SortedDescending(S) ==
    IF S = {} THEN <<>>
    ELSE LET m == CHOOSE x \in S : \A y \in S : ~StrLess(x, y)
         IN  <<m>> \o SortedDescending(S \ {m})

\* sorted(keys): ascending.
RECURSIVE Sorted(_)
Sorted(S) ==
    IF S = {} THEN <<>>
    ELSE LET m == CHOOSE x \in S : \A y \in S : ~StrLess(y, x)
         IN  <<m>> \o Sorted(S \ {m})

----------------------------------------------------------------------------
(* Trade documents, as the trade store returns them *)

\* A timestamp field: absent or null (t.get gives None), text that is no
\* ISO-8601 date-time, or an ISO-8601 date-time with its written calendar
\* date, its hour, and its zone: none, the letter Z, or a numeric offset.
TsNone == [k |-> "none", date |-> <<1, 1, 1>>, hour |-> 0, tz |-> "naive", off |-> 0]
TsText == [k |-> "text", date |-> <<1, 1, 1>>, hour |-> 0, tz |-> "naive", off |-> 0]
Iso(date, hour, tz, off) ==
    [k |-> "iso", date |-> date, hour |-> hour, tz |-> tz, off |-> off]

\* A quantity or price field: a number, or absent, null, the empty string,
\* or text that is no number.
Num(v) == [k |-> "num", v |-> v]
Shape(k) == [k |-> k, v |-> 0]

\* A side field: a string, or absent, or null.
Str(s) == [k |-> "str", s |-> s]
NoSide(k) == [k |-> k, s |-> ""]

Doc(ts, quantity, price, side, fees) ==
    [timestamp |-> ts, quantity |-> quantity, price |-> price, side |-> side,
     fees |-> fees]

----------------------------------------------------------------------------
(* compute_metrics *)

\* ts.replace("Z", "+00:00"): None has no replace.
Replace(ts) ==
    IF ts.k = "none" THEN [raised |-> TRUE, ts |-> ts]
    ELSE IF ts.k = "iso" /\ ts.tz = "Z"
         THEN [raised |-> FALSE, ts |-> Iso(ts.date, ts.hour, "offset", 0)]
         ELSE [raised |-> FALSE, ts |-> ts]

\* datetime.fromisoformat(s): a datetime that keeps the written date, the
\* written time and the written offset.
FromIsoFormat(s) ==
    IF s.k = "iso" /\ s.tz # "Z"
    THEN [raised |-> FALSE,
          dt |-> [date |-> s.date, hour |-> s.hour,
                  aware |-> (s.tz = "offset"), off |-> s.off]]
    ELSE [raised |-> TRUE,
          dt |-> [date |-> <<1, 1, 1>>, hour |-> 0, aware |-> FALSE, off |-> 0]]

\* The try block: dt = datetime.fromisoformat(ts.replace("Z", "+00:00")).
ParseTimestamp(ts) ==
    IF Replace(ts).raised THEN FromIsoFormat(TsText) ELSE FromIsoFormat(Replace(ts).ts)

\* Mutant of DayKey: the date of dt.astimezone(timezone.utc).
DayKeyUtc(dt) ==
    IsoFormat(UtcDate([date |-> dt.date, hour |-> dt.hour, off |-> dt.off,
                       tz |-> IF dt.aware THEN "offset" ELSE "naive"]))

\* day = dt.date().isoformat()
DayKey(dt) == IsoFormat(dt.date)

\* float(x or 0), x = t.get(field, 0).
ToFloat(x) ==
    IF x.k = "text" THEN [raised |-> TRUE, v |-> 0]
    ELSE IF x.k = "num" THEN [raised |-> FALSE, v |-> Float(x.v)]
    ELSE [raised |-> FALSE, v |-> 0]

\* str.lower() on the side strings of the model.
Lower(s) ==
    CASE s = "BUY"  -> "buy"
      [] s = "Buy"  -> "buy"
      [] s = "SELL" -> "sell"
      [] OTHER      -> s

\* Mutant of Sign: the comparison without lower().
SignCaseSensitive(side) ==
    IF side.k = "none" THEN [raised |-> TRUE, v |-> 0]
    ELSE IF side.k = "missing" THEN [raised |-> FALSE, v |-> 1]
    ELSE [raised |-> FALSE, v |-> IF side.s = "buy" THEN 1 ELSE -1]

\* side = (t.get("side", "buy")).lower(); sign = 1 if side == "buy" else -1
Sign(side) ==
    IF side.k = "none" THEN [raised |-> TRUE, v |-> 0]
    ELSE IF side.k = "missing" THEN [raised |-> FALSE, v |-> 1]
    ELSE [raised |-> FALSE, v |-> IF Lower(side.s) = "buy" THEN 1 ELSE -1]

\* notional = price * qty * sign
Notional(price, qty, sign) == FMul(FMul(price, qty), sign)

\* daily.get(day, 0.0)
Get(daily, day) == IF day \in DOMAIN daily THEN daily[day] ELSE 0

\* daily[day] = value
Put(daily, day, value) ==
    [d \in DOMAIN daily \cup {day} |-> IF d = day THEN value ELSE daily[d]]

\* Mutant of LoopBody: the parse error is not caught.
LoopBodyUncaught(daily, t) ==
    LET parsed == ParseTimestamp(t.timestamp)
        qty    == ToFloat(t.quantity)
        price  == ToFloat(t.price)
        sign   == Sign(t.side)
    IN  IF parsed.raised \/ qty.raised \/ price.raised \/ sign.raised
        THEN [raised |-> TRUE, daily |-> daily]
        ELSE [raised |-> FALSE,
              daily  |-> Put(daily, DayKey(parsed.dt),
                             FAdd(Get(daily, DayKey(parsed.dt)),
                                  Notional(price.v, qty.v, sign.v)))]

\* One pass of the loop over the trades: the dictionary after trade t, or
\* the exception that leaves the loop.
LoopBody(daily, t) ==
    LET parsed == ParseTimestamp(t.timestamp)
        qty    == ToFloat(t.quantity)
        price  == ToFloat(t.price)
        sign   == Sign(t.side)
    IN  IF parsed.raised THEN [raised |-> FALSE, daily |-> daily]
        ELSE IF qty.raised \/ price.raised \/ sign.raised
             THEN [raised |-> TRUE, daily |-> daily]
             ELSE [raised |-> FALSE,
                   daily  |-> Put(daily, DayKey(parsed.dt),
                                  FAdd(Get(daily, DayKey(parsed.dt)),
                                       Notional(price.v, qty.v, sign.v)))]

EmptyDict == [d \in {} |-> 0]

RECURSIVE Aggregate(_)
Aggregate(ts) ==
    IF ts = <<>> THEN [raised |-> FALSE, daily |-> EmptyDict]
    ELSE LET before == Aggregate(SubSeq(ts, 1, Len(ts) - 1))
         IN  IF before.raised THEN before ELSE LoopBody(before.daily, ts[Len(ts)])

\* pnl_series = [daily[d] for d in days]
PnlSeries(daily, days) == [i \in 1..Len(days) |-> daily[days[i]]]

\* total_return = sum(pnl_series)
TotalReturn(pnl) == FSum(pnl)

\* Mutant of Wins: v >= 0.
WinsNonNegative(pnl) == Cardinality({i \in DOMAIN pnl : pnl[i] >= 0})

\* wins = sum(1 for v in pnl_series if v > 0)
Wins(pnl) == Cardinality({i \in DOMAIN pnl : pnl[i] > 0})

\* win_rate = (wins / len(pnl_series) * 100.0) if pnl_series else 0.0
WinRate(pnl) == IF pnl # <<>> THEN Rat(Wins(pnl) * 100, Len(pnl)) ELSE Rat(0, 1)

\* Mutant of Mean: the divisor of the variance, len(pnl_series) - 1.
MeanOffByOne(pnl) ==
    IF Len(pnl) > 1 THEN Rat(TotalReturn(pnl), Len(pnl) - 1) ELSE Rat(0, 1)

\* mean = (total_return / len(pnl_series)) if pnl_series else 0.0
Mean(pnl) == IF pnl # <<>> THEN Rat(TotalReturn(pnl), Len(pnl)) ELSE Rat(0, 1)

\* sum((v - mean) ** 2 for v in pnl_series)
RECURSIVE SumSquares(_, _)
SumSquares(pnl, mean) ==
    IF pnl = <<>> THEN Rat(0, 1)
    ELSE LET dev == RSub(Rat(pnl[Len(pnl)], 1), mean)
         IN  RAdd(SumSquares(SubSeq(pnl, 1, Len(pnl) - 1), mean), RMul(dev, dev))

\* variance = (sum(...) / (len(pnl_series) - 1)) if len(pnl_series) > 1 else 0.0
Variance(pnl) ==
    IF Len(pnl) > 1
    THEN RDiv(SumSquares(pnl, Mean(pnl)), Rat(Len(pnl) - 1, 1))
    ELSE Rat(0, 1)

\* std > 1e-9, for std = variance ** 0.5.  A variance of the model that is
\* not zero is a ratio of two integers below 2^31, so it exceeds 1e-18.
StdAboveEpsilon(variance) == variance.num > 0

\* round(sharpe, 4) for sharpe = (mean / std) if std > 1e-9 else 0.0:
\* mean / std is the root of mean^2 / variance, with the sign of mean.
Sharpe(pnl) ==
    LET mean     == Mean(pnl)
        variance == Variance(pnl)
        root     == RoundRoot(RDiv(RMul(mean, mean), variance), 4)
    IN  IF ~StdAboveEpsilon(variance) THEN 0
        ELSE IF mean.num < 0 THEN -root ELSE root

\* Mutant of PeakInit: peak = 0.0.
PeakAtZero == [neginf |-> FALSE, v |-> 0]

\* peak = float('-inf')
PeakInit == [neginf |-> TRUE, v |-> 0]

\* One pass of the drawdown loop.
DrawdownStep(st, v) ==
    LET cum  == FAdd(st.cum, v)
        peak == IF st.peak.neginf \/ cum > st.peak.v
                THEN [neginf |-> FALSE, v |-> cum] ELSE st.peak
        dd   == FSub(peak.v, cum)
    IN  [cum |-> cum, peak |-> peak,
         max_dd |-> IF dd > st.max_dd THEN dd ELSE st.max_dd]

RECURSIVE DrawdownLoop(_)
DrawdownLoop(pnl) ==
    IF pnl = <<>> THEN [cum |-> 0, peak |-> PeakInit, max_dd |-> 0]
    ELSE DrawdownStep(DrawdownLoop(SubSeq(pnl, 1, Len(pnl) - 1)), pnl[Len(pnl)])

MaxDrawdown(pnl) == DrawdownLoop(pnl).max_dd

\* The metrics dictionary: total_return, volatility, sharpe and
\* max_drawdown in units of 10^-4, win_rate in units of 10^-2.
Metrics(pnl) ==
    [total_return |-> Round(Rat(TotalReturn(pnl), 1), 4),
     win_rate     |-> Round(WinRate(pnl), 2),
     volatility   |-> RoundRoot(Variance(pnl), 4),
     sharpe       |-> Sharpe(pnl),
     max_drawdown |-> Round(Rat(MaxDrawdown(pnl), 1), 4)]

ZeroMetrics ==
    [total_return |-> 0, win_rate |-> 0, volatility |-> 0, sharpe |-> 0,
     max_drawdown |-> 0]

\* daily_list = [{"timestamp": d, "pnl": daily[d]} for d in days]
DailyList(daily, days) ==
    [i \in 1..Len(days) |-> [timestamp |-> days[i], pnl |-> daily[days[i]]]]

\* compute_metrics(trades): (metrics, daily_list), or an exception.
compute_metrics(ts) ==
    LET agg  == Aggregate(ts)
        days == Sorted(DOMAIN agg.daily)
    IN  IF agg.raised
        THEN [raised |-> TRUE, metrics |-> ZeroMetrics, daily |-> <<>>]
        ELSE [raised |-> FALSE,
              metrics |-> Metrics(PnlSeries(agg.daily, days)),
              daily |-> DailyList(agg.daily, days)]

----------------------------------------------------------------------------
(* The handlers *)

None == [some |-> FALSE, v |-> 0]
Some(v) == [some |-> TRUE, v |-> v]

\* The forecast window of ai_insights.
N == 3

\* Mutant of LastN: no window, the whole series.
LastNAll(daily) == daily

\* daily[-N:]
LastN(daily) == SubSeq(daily, IF Len(daily) > N THEN Len(daily) - N + 1 ELSE 1, Len(daily))

\* forecast = round(sum(last) / len(last), 4) if last else None
Forecast(daily) ==
    LET last == [i \in 1..Len(LastN(daily)) |-> LastN(daily)[i].pnl]
    IN  IF last # <<>> THEN Some(Round(Rat(FSum(last), Len(last)), 4)) ELSE None

\* The numbers the message embeds; the projection is printed with two
\* decimals, or replaced by the insufficient-data phrase.
Message(metrics, forecast) ==
    [win_rate |-> metrics.win_rate, sharpe |-> metrics.sharpe,
     max_drawdown |-> metrics.max_drawdown,
     projection |-> IF forecast.some THEN Some(RoundDiv(forecast.v, 100)) ELSE None]

\* {"risk_exposure": metrics["volatility"], **metrics, "forecast_pnl": forecast}
InsightMetrics(metrics, forecast) ==
    [risk_exposure |-> metrics.volatility,
     total_return  |-> metrics.total_return,
     win_rate      |-> metrics.win_rate,
     volatility    |-> metrics.volatility,
     sharpe        |-> metrics.sharpe,
     max_drawdown  |-> metrics.max_drawdown,
     forecast_pnl  |-> forecast]

MakeInsight(metrics, daily) ==
    [user_id |-> "user",
     title   |-> "Daily Risk & Trend Overview",
     message |-> Message(metrics, Forecast(daily)),
     tags    |-> <<"risk", "trend", "forecast">>,
     metrics |-> InsightMetrics(metrics, Forecast(daily))]

Reply(handler, status, metrics, daily, insights) ==
    [handler |-> handler, status |-> status, metrics |-> metrics,
     daily |-> daily, insights |-> insights]

NoReply == Reply("none", 0, ZeroMetrics, <<>>, <<>>)

\* An exception that leaves a handler is answered with status 500.
ServerError(handler) == Reply(handler, 500, ZeroMetrics, <<>>, <<>>)

\* GET /portfolio/summary, for a known user of a configured database.
PortfolioSummary ==
    /\ response' =
         IF trades = <<>> THEN Reply("summary", 200, ZeroMetrics, <<>>, <<>>)
         ELSE LET r == compute_metrics(trades)
              IN  IF r.raised THEN ServerError("summary")
                  ELSE Reply("summary", 200, r.metrics, r.daily, <<>>)
    /\ UNCHANGED <<trades, insightStore>>

\* GET /insights, for a known user of a configured database.  Saving the
\* insight with create_document("insight", insight) may fail, which the
\* handler ignores.
AiInsights ==
    LET r       == compute_metrics(trades)
        insight == MakeInsight(r.metrics, r.daily)
    IN  IF trades = <<>>
        THEN /\ response' = Reply("insights", 200, ZeroMetrics, <<>>, <<>>)
             /\ UNCHANGED <<trades, insightStore>>
        ELSE IF r.raised
        THEN /\ response' = ServerError("insights")
             /\ UNCHANGED <<trades, insightStore>>
        ELSE /\ response' = Reply("insights", 200, ZeroMetrics, <<>>, <<insight>>)
             /\ \E saved \in BOOLEAN :
                    insightStore' = IF saved THEN insightStore \cup {insight}
                                             ELSE insightStore
             /\ UNCHANGED trades

Next == PortfolioSummary \/ AiInsights

----------------------------------------------------------------------------
(* The trade documents that find-all returns for the user *)

Day1 == <<2024, 9, 29>>
Day2 == <<2024, 9, 30>>
Day3 == <<2024, 10, 1>>
Day4 == <<2024, 10, 2>>

\* A price so large that adding 1 to it is lost in rounding.
BigPrice == Pow(2, SigBits)

Trade(date, price, side) == Doc(Iso(date, 10, "Z", 0), Num(1), Num(price), Str(side), 0)

\* Well-formed trades of quantity 1 on three days: bought or sold at
\* price 1, and one bought at BigPrice.
SeriesDocs ==
    {Trade(d, 1, s) : d \in {Day1, Day2}, s \in {"buy", "sell"}}
    \cup {Trade(Day3, 1, "buy"), Trade(Day3, BigPrice, "buy")}

\* One trade on each of four days, and one whose timestamp does not parse.
WindowDocs ==
    {Trade(Day1, 1, "sell"), Trade(Day2, 1, "buy"), Trade(Day3, 1, "buy"),
     Trade(Day4, 2, "buy"),
     Doc(TsText, Num(1), Num(1), Str("buy"), 0)}

\* 23:00 at UTC-5 on Day1, which is 04:00 UTC on Day2.
TsWest == Iso(Day1, 23, "offset", -5)
TsZulu == Iso(Day2, 4, "Z", 0)
TsNaive == Iso(Day2, 4, "naive", 0)

BaseDoc == Doc(TsZulu, Num(2), Num(3), Str("buy"), 0)

Shapes == {Shape("missing"), Shape("none"), Shape("empty"), Shape("text")}

\* The base document with one field varied over the shapes it can have,
\* and one with both an unparseable timestamp and a non-numeric quantity.
RecordDocs ==
    {BaseDoc}
    \cup {[BaseDoc EXCEPT !.timestamp = ts] : ts \in {TsWest, TsNaive, TsText, TsNone}}
    \cup {[BaseDoc EXCEPT !.quantity = x] : x \in Shapes}
    \cup {[BaseDoc EXCEPT !.price = x] : x \in Shapes}
    \cup {[BaseDoc EXCEPT !.side = x] :
            x \in {Str("BUY"), Str("sell"), Str("hold"), Str(""),
                   NoSide("missing"), NoSide("none")}}
    \cup {[BaseDoc EXCEPT !.fees = 1]}
    \cup {Doc(TsText, Shape("text"), Num(3), Str("buy"), 0)}

Lists(S, n) == UNION {[1..k -> S] : k \in 0..n}

InitWith(docs, n) ==
    /\ trades \in Lists(docs, n)
    /\ response = NoReply
    /\ insightStore = {}

\* Daily series of well-formed trades.
Init == InitWith(SeriesDocs, MaxTrades)
Spec == Init /\ [][Next]_vars

\* Series long enough to exceed the forecast window.
InitWindow == InitWith(WindowDocs, MaxWindow)
SpecWindow == InitWindow /\ [][Next]_vars

\* Documents of every shape.
InitRecords == InitWith(RecordDocs, MaxDocs)
SpecRecords == InitRecords /\ [][Next]_vars

----------------------------------------------------------------------------
(* Vocabulary of the properties *)

\* compute_metrics was called by portfolio_summary and returned.
SummaryOk == response.handler = "summary" /\ response.status = 200 /\ trades # <<>>

\* ai_insights built an insight.
InsightOk == response.handler = "insights" /\ response.status = 200 /\ trades # <<>>

PnlOf(daily) == [i \in 1..Len(daily) |-> daily[i].pnl]

SetMax(S) == CHOOSE x \in S : \A y \in S : y <= x

\* The timestamp field is an ISO-8601 date-time.
Parseable(t) == t.timestamp.k = "iso"

Kept(ts) == SelectSeq(ts, Parseable)

\* The value of a quantity or price field that is a number, absent, null or
\* empty.
FieldValue(x) == IF x.k = "num" THEN x.v ELSE 0

IsBuy(s) == s \in {"buy", "Buy", "BUY"}

----------------------------------------------------------------------------
(* Properties of the daily series and the statistics (Spec) *)

\* C1: the daily list compute_metrics returns is sorted strictly ascending
\* by its date string, so no two entries carry the same date.
C1_DailyStrictlyAscending ==
    SummaryOk =>
        \A i, j \in DOMAIN response.daily :
            i < j => StrLess(response.daily[i].timestamp, response.daily[j].timestamp)

\* C1 witness: trades listed latest day first, two of them on one day, came
\* back as a series of two points.
C1_Witness ==
    /\ SummaryOk
    /\ Len(trades) = 3
    /\ Len(response.daily) = 2
    /\ StrLess(IsoFormat(trades[2].timestamp.date), IsoFormat(trades[1].timestamp.date))

Permutations(n) == {f \in [1..n -> 1..n] : \A i, j \in 1..n : f[i] = f[j] => i = j}

\* C2: every permutation of the trade list gives the metrics and the daily
\* list that the list itself gave.
C2_OrderIndependent ==
    SummaryOk =>
        \A f \in Permutations(Len(trades)) :
            LET r == compute_metrics([i \in 1..Len(trades) |-> trades[f[i]]])
            IN  /\ ~r.raised
                /\ r.metrics = response.metrics
                /\ r.daily = response.daily

\* C7 as claimed: win_rate is in [0, 100] and is 0 exactly when the daily
\* series is empty.
C7_ZeroIffEmpty ==
    SummaryOk =>
        /\ response.metrics.win_rate \in 0..10000
        /\ response.metrics.win_rate = 0 <=> response.daily = <<>>

\* C7 amended: win_rate is in [0, 100] and is 0 whenever no daily point has
\* a strictly positive P&L, which includes the empty series.
C7_ZeroWithoutWins ==
    SummaryOk =>
        /\ response.metrics.win_rate \in 0..10000
        /\ (\A i \in DOMAIN response.daily : response.daily[i].pnl <= 0)
               => response.metrics.win_rate = 0

\* C7 witness: a series with points, none of them positive, one of them 0.
C7_Witness ==
    /\ SummaryOk
    /\ Len(response.daily) = 2
    /\ response.daily[1].pnl = 0
    /\ response.daily[2].pnl < 0
    /\ response.metrics.win_rate = 0

\* C8 as claimed: volatility is >= 0 and is 0 exactly when the daily series
\* has at most one point.
C8_ZeroIffAtMostOnePoint ==
    SummaryOk =>
        /\ response.metrics.volatility >= 0
        /\ response.metrics.volatility = 0 <=> Len(response.daily) <= 1

\* C8 amended: volatility is >= 0, is 0 whenever the daily series has at
\* most one point, and is 0 as well for two points of equal P&L.
C8_ZeroForAtMostOnePoint ==
    SummaryOk =>
        /\ response.metrics.volatility >= 0
        /\ Len(response.daily) <= 1 => response.metrics.volatility = 0
        /\ (Len(response.daily) = 2 /\ response.daily[1].pnl = response.daily[2].pnl)
               => response.metrics.volatility = 0

\* C8 witness: two points of equal, non-zero P&L and volatility 0.
C8_Witness ==
    /\ SummaryOk
    /\ Len(response.daily) = 2
    /\ response.daily[1].pnl = response.daily[2].pnl
    /\ response.daily[1].pnl # 0
    /\ response.metrics.volatility = 0

\* The cumulative P&L after the first j points.
Cumulative(pnl, j) == FSum(SubSeq(pnl, 1, j))

\* The decline at point j from the highest cumulative P&L up to j.
Decline(pnl, j) == FSub(SetMax({Cumulative(pnl, i) : i \in 1..j}), Cumulative(pnl, j))

\* C9: max_drawdown is >= 0, is the largest decline over all points from
\* the highest cumulative P&L so far, and is 0 when the cumulative P&L never
\* falls.
C9_MaxDrawdown ==
    SummaryOk =>
        LET pnl == PnlOf(response.daily)
        IN  /\ response.metrics.max_drawdown >= 0
            /\ pnl # <<>> =>
                 response.metrics.max_drawdown =
                     10000 * SetMax({Decline(pnl, j) : j \in DOMAIN pnl})
            /\ (\A j \in 2..Len(pnl) : Cumulative(pnl, j) >= Cumulative(pnl, j - 1))
                   => response.metrics.max_drawdown = 0

\* C9 witness: the cumulative P&L starts negative and never falls.
C9_Witness ==
    /\ SummaryOk
    /\ Len(response.daily) = 3
    /\ response.daily[1].pnl < 0
    /\ \A j \in 2..3 : response.daily[j].pnl >= 0
    /\ response.metrics.max_drawdown = 0

----------------------------------------------------------------------------
(* Properties of the insight (SpecWindow) *)

\* C10: the forecast is the mean of the P&L of the last 3 daily points (of
\* all of them when there are fewer), to the 4 decimals it is rounded to,
\* and is None exactly when there is no daily point; the insight's metrics
\* hold the five summary fields, the forecast, and volatility again as
\* risk_exposure.
C10_ForecastAndFields ==
    InsightOk =>
        LET r      == compute_metrics(trades)
            pnl    == PnlOf(r.daily)
            k      == IF Len(pnl) < 3 THEN Len(pnl) ELSE 3
            last   == [i \in 1..k |-> pnl[Len(pnl) - k + i]]
            fields == response.insights[1].metrics
        IN  /\ Len(response.insights) = 1
            /\ fields.forecast_pnl.some <=> pnl # <<>>
            /\ pnl # <<>> =>
                 2 * Abs(fields.forecast_pnl.v * k - FSum(last) * 10000) <= k
            /\ DOMAIN fields = {"risk_exposure", "total_return", "win_rate",
                                "volatility", "sharpe", "max_drawdown", "forecast_pnl"}
            /\ \A name \in DOMAIN r.metrics : fields[name] = r.metrics[name]
            /\ fields.risk_exposure = r.metrics.volatility

\* C10 witness: four daily points, and a forecast that is the mean of the
\* last three and not of all four.
C10_Witness ==
    /\ InsightOk
    /\ Len(trades) = 4
    /\ \A i \in 1..4 : Parseable(trades[i])
    /\ \A i, j \in 1..4 : i # j => trades[i].timestamp.date # trades[j].timestamp.date
    /\ response.insights[1].metrics.forecast_pnl = Some(13333)

\* C10 witness of the absent forecast: an insight for trades none of which
\* has a parseable timestamp.
C10_NoneReached ==
    /\ InsightOk
    /\ response.insights[1].metrics.forecast_pnl = None
    /\ response.insights[1].message.projection = None

----------------------------------------------------------------------------
(* Properties of the record handling (SpecRecords) *)

\* C3: the reply is the one compute_metrics gives for the trades without
\* those whose timestamp does not parse: the same metrics and daily list,
\* or an exception in both cases.
C3_UnparseableSkipped ==
    (response.handler = "summary" /\ trades # <<>>) =>
        LET r == compute_metrics(Kept(trades))
        IN  IF r.raised THEN response.status = 500
            ELSE /\ response.status = 200
                 /\ response.metrics = r.metrics
                 /\ response.daily = r.daily

\* C3 witness: a trade whose timestamp does not parse and whose quantity is
\* no number, beside a well-formed one, and the reply holds one point.
C3_Witness ==
    /\ SummaryOk
    /\ Len(trades) = 2
    /\ ~Parseable(trades[1]) /\ trades[1].quantity.k = "text"
    /\ Parseable(trades[2])
    /\ Len(response.daily) = 1

\* C4: whatever the shape of the records, the call returns.
C4_NeverRaises == response.handler # "none" => response.status = 200

\* The amount the claim gives for a trade: price x quantity x sign, fees
\* unused.
Amount(t, sign) == FMul(FMul(FieldValue(t.price), FieldValue(t.quantity)), sign)

\* The sign as claimed: +1 for a side equal to "buy" whatever its case, and
\* -1 in every other case, a trade with no side value included.
ClaimedSign(side) == IF side.k = "str" /\ IsBuy(side.s) THEN 1 ELSE -1

\* The sign as amended: +1 as well for a trade with no side key.
AmendedSign(side) ==
    IF side.k = "missing" \/ (side.k = "str" /\ IsBuy(side.s)) THEN 1 ELSE -1

\* The daily points are the sums, per written date and in list order, of
\* the amounts of the trades with a parseable timestamp.
BucketsHold(amounts) ==
    \A i \in DOMAIN response.daily :
        LET on == SelectSeq([n \in DOMAIN trades |-> [t |-> trades[n], a |-> amounts[n]]],
                            LAMBDA e : Parseable(e.t)
                                       /\ IsoFormat(e.t.timestamp.date)
                                            = response.daily[i].timestamp)
        IN  /\ on # <<>>
            /\ response.daily[i].pnl = FSum([n \in DOMAIN on |-> on[n].a])

\* C5 as claimed: every daily point is the sum of price x quantity x sign
\* of its trades, with -1 for a trade with no side value.
C5_ClaimedAmounts ==
    SummaryOk => BucketsHold([n \in DOMAIN trades |-> Amount(trades[n], ClaimedSign(trades[n].side))])

\* C5 amended: every daily point is the sum of price x quantity x sign of
\* its trades, with +1 for a trade with no side key; fees play no part.
C5_AmendedAmounts ==
    SummaryOk => BucketsHold([n \in DOMAIN trades |-> Amount(trades[n], AmendedSign(trades[n].side))])

\* C5 witness: a trade with no side key and a trade with fees, both of
\* 2 units at price 3, sum to 12 on one day.
C5_Witness ==
    /\ SummaryOk
    /\ Len(trades) = 2
    /\ trades[1].side.k = "missing"
    /\ trades[2].fees = 1
    /\ Len(response.daily) = 1
    /\ response.daily[1].pnl = 12

\* The date keys of the reply.
Keys == {response.daily[i].timestamp : i \in DOMAIN response.daily}

\* The trades of the list whose timestamp parses.
ParseableIndexes == {n \in DOMAIN trades : Parseable(trades[n])}

\* C6 as claimed: a trade is bucketed by the UTC calendar date of the
\* instant its timestamp denotes.
C6_BucketedByUtcDate ==
    SummaryOk =>
        Keys = {IsoFormat(UtcDate(trades[n].timestamp)) : n \in ParseableIndexes}

\* C6 amended: a trade is bucketed by the calendar date written in its
\* timestamp, whatever its offset.
C6_BucketedByWrittenDate ==
    SummaryOk =>
        Keys = {IsoFormat(trades[n].timestamp.date) : n \in ParseableIndexes}

\* C6 witness: two trades at the same instant, one written at UTC-5 on the
\* day before, land in two daily points.
C6_Witness ==
    /\ SummaryOk
    /\ Len(trades) = 2
    /\ trades[1].timestamp = TsWest
    /\ trades[2].timestamp = TsZulu
    /\ UtcDate(TsWest) = UtcDate(TsZulu)
    /\ Len(response.daily) = 2
    /\ response.daily[1].timestamp = IsoFormat(Day1)

====
